---- MODULE Spec2Model ----
(***************************************************************************)
(* Model of the data cleaning stage of the NTD clinical-trials pipeline    *)
(* (CleanData.py with the lookup tables of Mapping.py) and of the script   *)
(* runner of Main.py.                                                      *)
(*                                                                         *)
(* Texts are sequences of one-character strings, so that upper-casing,     *)
(* trimming, splitting, substring search and digit extraction are computed *)
(* character by character as the Python code computes them.  An absent     *)
(* cell (pandas NaN / None) is the value NA.                               *)
(***************************************************************************)
EXTENDS Integers, Sequences, FiniteSets, TLC

VARIABLES
    pc,                 \* position of the CleanData.py run
    source,             \* the input file ictrp_data.csv: [ok, columns, rows]
    columns,            \* df.columns
    df,                 \* rows of df, a sequence of functions column -> cell
    published_df,       \* rows of published_df
    files,              \* files written so far: name -> content
    outliers_removed,   \* counter of rows dropped by the two filters
    out_dir,            \* whether the folder CleanedData exists
    error,              \* the exception that ended the run ("" if none)
    fn,                 \* function under call (pure-function specification)
    arg,                \* its argument
    ret,                \* <<>> before the call, <<result>> after it
    main_pc,            \* position of main() of Main.py
    script_index,       \* index in SCRIPTS of the script the loop is at
    success,            \* counter of the scripts that ran through
    failed,             \* counter of the scripts that failed
    started,            \* the scripts handed to subprocess.run, in order
    exists              \* the scripts present in the working directory

vars ==
    <<pc, source, columns, df, published_df, files, outliers_removed, out_dir, error, fn, arg, ret,
      main_pc, script_index, success, failed, started, exists>>

runVars == <<pc, source, columns, df, published_df, files, outliers_removed, out_dir, error>>

callVars == <<fn, arg, ret>>

mainVars == <<main_pc, script_index, success, failed, started, exists>>

(***************************************************************************)
(* Characters and texts                                                    *)
(***************************************************************************)
NA == <<"NaN">>

isna(x) == x = NA

Lowers == <<"a","b","c","d","e","f","g","h","i","j","k","l","m","n","o","p","q","r","s","t","u","v","w","x","y","z">>

Uppers == <<"A","B","C","D","E","F","G","H","I","J","K","L","M","N","O","P","Q","R","S","T","U","V","W","X","Y","Z">>

Digits == <<"0","1","2","3","4","5","6","7","8","9">>

IndexIn(c, alphabet) ==
    IF \E i \in 1..Len(alphabet) : alphabet[i] = c
    THEN CHOOSE i \in 1..Len(alphabet) : alphabet[i] = c
    ELSE 0

UpperChar(c) == IF IndexIn(c, Lowers) > 0 THEN Uppers[IndexIn(c, Lowers)] ELSE c

LowerChar(c) == IF IndexIn(c, Uppers) > 0 THEN Lowers[IndexIn(c, Uppers)] ELSE c

Upper(s) == IF s = <<>> THEN <<>> ELSE [i \in 1..Len(s) |-> UpperChar(s[i])]

Lower(s) == IF s = <<>> THEN <<>> ELSE [i \in 1..Len(s) |-> LowerChar(s[i])]

IsDigit(c) == IndexIn(c, Digits) > 0

IsSpace(c) == c \in {" ", "\t", "\n", "\r"}

\* k in s  (Python substring test)
Contains(s, k) ==
    \E i \in 1..(Len(s) - Len(k) + 1) : SubSeq(s, i, i + Len(k) - 1) = k

SetMin(S) == CHOOSE x \in S : \A y \in S : x <= y

SetMax(S) == CHOOSE x \in S : \A y \in S : y <= x

\* str.strip(): whitespace removed at both ends
Strip(s) ==
    LET keep == {i \in 1..Len(s) : ~IsSpace(s[i])}
    IN  IF keep = {} THEN <<>> ELSE SubSeq(s, SetMin(keep), SetMax(keep))

\* re.findall(r'\d+', s)[0]: the first maximal run of digits (<<>> if none)
FirstDigitRun(s) ==
    LET ds == {i \in 1..Len(s) : IsDigit(s[i])}
    IN  IF ds = {} THEN <<>>
        ELSE LET a == SetMin(ds)
                 b == SetMax({j \in a..Len(s) : \A k \in a..j : IsDigit(s[k])})
             IN  SubSeq(s, a, b)

\* Python integers are unbounded.  A value that reaches IntCap is represented
\* by a number of at least IntCap: the code compares integers only with 0,
\* 120, 1440 and 1000000, which are all below it.
IntCap == 100000000

RECURSIVE ToInt(_)
\* int(digits)
ToInt(ds) ==
    IF ds = <<>> THEN 0
    ELSE LET front == ToInt(SubSeq(ds, 1, Len(ds) - 1))
         IN  IF front >= IntCap THEN front
             ELSE 10 * front + (IndexIn(ds[Len(ds)], Digits) - 1)

\* the separators of re.split(r'[|,;/\s]+', ...)
IsSeparator(c) == c \in {"|", ",", ";", "/"} \/ IsSpace(c)

\* re.split(r'[|,;/\s]+', s)[0]: the text before the first separator
FirstToken(s) ==
    LET seps == {i \in 1..Len(s) : IsSeparator(s[i])}
    IN  IF seps = {} THEN s ELSE SubSeq(s, 1, SetMin(seps) - 1)

AllDigits(s) == s # <<>> /\ \A i \in 1..Len(s) : IsDigit(s[i])

\* the decimal digits of n, zero-padded to width
DigitsOf(n, width) ==
    [i \in 1..width |-> Digits[((n \div (10 ^ (width - i))) % 10) + 1]]

\* the first position at or after from where old occurs in s (0 if none)
FindFrom(s, old, from) ==
    LET at == {i \in from..(Len(s) - Len(old) + 1) : SubSeq(s, i, i + Len(old) - 1) = old}
    IN  IF at = {} THEN 0 ELSE SetMin(at)

RECURSIVE Replace(_, _, _)
\* str.replace(old, new)
Replace(s, old, new) ==
    LET i == FindFrom(s, old, 1)
    IN  IF i = 0 THEN s
        ELSE SubSeq(s, 1, i - 1) \o new \o Replace(SubSeq(s, i + Len(old), Len(s)), old, new)

RECURSIVE SplitOn(_, _)
\* str.split(c) for a one-character separator: empty pieces are kept
SplitOn(s, c) ==
    LET i == FindFrom(s, <<c>>, 1)
    IN  IF i = 0 THEN <<s>>
        ELSE <<SubSeq(s, 1, i - 1)>> \o SplitOn(SubSeq(s, i + 1, Len(s)), c)

RECURSIVE Words(_)
\* str.split(): the maximal runs of non-whitespace characters
Words(s) ==
    LET t == Strip(s)
        sp == {i \in 1..Len(t) : IsSpace(t[i])}
    IN  IF t = <<>> THEN <<>>
        ELSE IF sp = {} THEN <<t>>
        ELSE <<SubSeq(t, 1, SetMin(sp) - 1)>> \o Words(SubSeq(t, SetMin(sp), Len(t)))

(***************************************************************************)
(* Mapping.py: the lookup tables                                           *)
(***************************************************************************)
SPONSOR_KEYWORDS(category) ==
    CASE category = "Government" ->
           << <<"M","I","N","I","S","T","R","Y">>, <<"G","O","V","E","R","N","M","E","N","T">>, <<"N","A","T","I","O","N","A","L"," ","I","N","S","T","I","T","U","T","E">>, <<"C","D","C">>,
              <<"N","I","H">>, <<"D","E","P","A","R","T","M","E","N","T">>, <<"C","O","U","N","C","I","L">> >>
      [] category = "Industry" ->
           << <<"P","H","A","R","M","A">>, <<"I","N","C">>, <<"C","O","R","P">>, <<"L","T","D">>, <<"L","L","C">>, <<"D","I","V","I","S","I","O","N">>,
              <<"L","I","M","I","T","E","D">>, <<"K","G","A","A">> >>
      [] category = "Non-profit" ->
           << <<"U","N","I","V","E","R","S","I","T","Y">>, <<"H","O","S","P","I","T","A","L">>, <<"F","O","U","N","D","A","T","I","O","N">>, <<"I","N","T","E","R","N","A","T","I","O","N","A","L">>,
              <<"N","G","O">>, <<"T","R","U","S","T">>, <<"W","H","O">>, <<"O","R","G","A","N","I","S","A","T","I","O","N">>, <<"I","N","S","T","I","T","U","T","E">>,
              <<"I","N","S","T","I","T","U","T","I","O","N","A","L">>, <<"A","C","A","D","E","M","Y">>,
              <<"D","R","U","G","S"," ","F","O","R"," ","N","E","G","L","E","C","T","E","D"," ","D","I","S","E","A","S","E","S"," ","I","N","I","T","I","A","T","I","V","E">>,
              <<"D","R","U","G","S"," ","F","O","R"," ","N","E","G","L","E","C","T","E","D"," ","D","I","S","E","A","S","E","S">>, <<"S","C","H","O","O","L">>, <<"A","C","A","D","E","M","I","C">>,
              <<"I","D","R","I">>, <<"P","A","T","H">> >>

\* the levels in the order INCOME_MAP.items() yields them
INCOME_LEVELS == <<"Low", "Lower middle", "Upper middle", "High">>

\* faulty variant: CHL is listed under "Upper middle" and under "High"
INCOME_MAP_overlapping(lvl) ==
    CASE lvl = "Low" ->
           << <<"B","F","A">>, <<"M","D","G">>, <<"M","O","Z">>, <<"T","Z","A">>, <<"K","E","N">>, <<"E","T","H">>, <<"U","G","A">>, <<"Z","W","E">>,
              <<"M","W","I">>, <<"R","W","A">>, <<"N","E","R">>, <<"L","B","R">>, <<"C","O","D">>, <<"S","D","N">>, <<"H","T","I">>, <<"M","R","T">>,
              <<"G","N","B">>, <<"M","L","I">> >>
      [] lvl = "Lower middle" ->
           << <<"I","N","D">>, <<"B","G","D">>, <<"P","H","L">>, <<"V","N","M">>, <<"I","D","N">>, <<"E","G","Y">>, <<"G","H","A">>, <<"Z","M","B">>,
              <<"C","M","R">>, <<"N","P","L">>, <<"K","H","M">>, <<"L","A","O">>, <<"L","K","A">>, <<"T","L","S">>, <<"H","N","D">>, <<"S","L","V">>,
              <<"S","E","N">>, <<"S","L","B">> >>
      [] lvl = "Upper middle" ->
           << <<"C","H","N">>, <<"B","R","A">>, <<"M","E","X">>, <<"C","O","L">>, <<"T","H","A">>, <<"Z","A","F">>, <<"P","E","R">>, <<"E","C","U">>,
              <<"G","A","B">>, <<"A","R","G">>, <<"V","E","N">>, <<"B","O","L">>, <<"C","I","V">>, <<"G","T","M">>, <<"F","J","I">>, <<"C","H","L">> >>
      [] lvl = "High" ->
           << <<"U","S","A">>, <<"G","B","R">>, <<"D","E","U">>, <<"F","R","A">>, <<"E","S","P">>, <<"N","L","D">>, <<"C","H","E">>, <<"C","A","N">>,
              <<"A","U","S">>, <<"B","E","L">>, <<"C","H","L">> >>

INCOME_MAP(lvl) ==
    CASE lvl = "Low" ->
           << <<"B","F","A">>, <<"M","D","G">>, <<"M","O","Z">>, <<"T","Z","A">>, <<"K","E","N">>, <<"E","T","H">>, <<"U","G","A">>, <<"Z","W","E">>,
              <<"M","W","I">>, <<"R","W","A">>, <<"N","E","R">>, <<"L","B","R">>, <<"C","O","D">>, <<"S","D","N">>, <<"H","T","I">>, <<"M","R","T">>,
              <<"G","N","B">>, <<"M","L","I">> >>
      [] lvl = "Lower middle" ->
           << <<"I","N","D">>, <<"B","G","D">>, <<"P","H","L">>, <<"V","N","M">>, <<"I","D","N">>, <<"E","G","Y">>, <<"G","H","A">>, <<"Z","M","B">>,
              <<"C","M","R">>, <<"N","P","L">>, <<"K","H","M">>, <<"L","A","O">>, <<"L","K","A">>, <<"T","L","S">>, <<"H","N","D">>, <<"S","L","V">>,
              <<"S","E","N">>, <<"S","L","B">> >>
      [] lvl = "Upper middle" ->
           << <<"C","H","N">>, <<"B","R","A">>, <<"M","E","X">>, <<"C","O","L">>, <<"T","H","A">>, <<"Z","A","F">>, <<"P","E","R">>, <<"E","C","U">>,
              <<"G","A","B">>, <<"A","R","G">>, <<"V","E","N">>, <<"B","O","L">>, <<"C","I","V">>, <<"G","T","M">>, <<"F","J","I">> >>
      [] lvl = "High" ->
           << <<"U","S","A">>, <<"G","B","R">>, <<"D","E","U">>, <<"F","R","A">>, <<"E","S","P">>, <<"N","L","D">>, <<"C","H","E">>, <<"C","A","N">>,
              <<"A","U","S">>, <<"B","E","L">>, <<"C","H","L">> >>

\* code -> country name, in the order of the dictionary (names in ASCII)
COUNTRY_CODE ==
    << <<<<"B","R","A">>, "Brazil">>, <<<<"I","N","D">>, "India">>, <<<<"A","R","G">>, "Argentina">>,
       <<<<"K","E","N">>, "Kenya">>, <<<<"T","Z","A">>, "Tanzania">>, <<<<"E","T","H">>, "Ethiopia">>,
       <<<<"C","I","V">>, "Cote d'Ivoire">>, <<<<"U","G","A">>, "Uganda">>, <<<<"E","S","P">>, "Spain">>,
       <<<<"U","S","A">>, "United States">>, <<<<"B","G","D">>, "Bangladesh">>, <<<<"S","D","N">>, "Sudan">>,
       <<<<"C","H","N">>, "China">>, <<<<"B","O","L">>, "Bolivia">>, <<<<"C","O","L">>, "Colombia">>,
       <<<<"S","E","N">>, "Senegal">>, <<<<"N","L","D">>, "Netherlands">>, <<<<"G","B","R">>, "United Kingdom">>,
       <<<<"L","A","O">>, "Laos">>, <<<<"C","H","E">>, "Switzerland">>, <<<<"P","H","L">>, "Philippines">>,
       <<<<"K","H","M">>, "Cambodia">>, <<<<"V","N","M">>, "Vietnam">>, <<<<"M","E","X">>, "Mexico">>,
       <<<<"N","P","L">>, "Nepal">>, <<<<"D","E","U">>, "Germany">>, <<<<"F","R","A">>, "France">>,
       <<<<"Z","W","E">>, "Zimbabwe">>, <<<<"B","F","A">>, "Burkina Faso">>, <<<<"M","D","G">>, "Madagascar">>,
       <<<<"I","D","N">>, "Indonesia">>, <<<<"Z","M","B">>, "Zambia">>, <<<<"E","G","Y">>, "Egypt">>,
       <<<<"G","H","A">>, "Ghana">>, <<<<"G","A","B">>, "Gabon">>, <<<<"C","H","L">>, "Chile">>,
       <<<<"M","O","Z">>, "Mozambique">>, <<<<"T","H","A">>, "Thailand">>, <<<<"C","A","N">>, "Canada">>,
       <<<<"E","C","U">>, "Ecuador">>, <<<<"T","L","S">>, "Timor-Leste">>, <<<<"F","J","I">>, "Fiji">>,
       <<<<"L","K","A">>, "Sri Lanka">>, <<<<"G","T","M">>, "Guatemala">>, <<<<"B","E","L">>, "Belgium">>,
       <<<<"G","N","B">>, "Guinea-Bissau">>, <<<<"M","W","I">>, "Malawi">>, <<<<"S","L","B">>, "Solomon Islands">>,
       <<<<"R","W","A">>, "Rwanda">>, <<<<"H","T","I">>, "Haiti">>, <<<<"N","E","R">>, "Niger">>,
       <<<<"P","E","R">>, "Peru">>, <<<<"V","E","N">>, "Venezuela">>, <<<<"L","B","R">>, "Liberia">>,
       <<<<"A","U","S">>, "Australia">>, <<<<"C","O","D">>, "DR Congo">>, <<<<"H","N","D">>, "Honduras">>,
       <<<<"C","M","R">>, "Cameroon">>, <<<<"Z","A","F">>, "South Africa">>, <<<<"M","L","I">>, "Mali">>,
       <<<<"S","L","V">>, "El Salvador">>, <<<<"M","R","T">>, "Mauritania">> >>

IsCountryCode(code) == \E i \in 1..Len(COUNTRY_CODE) : COUNTRY_CODE[i][1] = code

CountryName(code) == COUNTRY_CODE[CHOOSE i \in 1..Len(COUNTRY_CODE) : COUNTRY_CODE[i][1] = code][2]

InList(x, list) == \E i \in 1..Len(list) : list[i] = x

(***************************************************************************)
(* CleanData.py: the pure functions                                        *)
(***************************************************************************)
\* any(k in sponsor_upper for k in SPONSOR_KEYWORDS[category])
AnyKeyword(sponsor_upper, category) ==
    \E i \in 1..Len(SPONSOR_KEYWORDS(category)) :
        Contains(sponsor_upper, SPONSOR_KEYWORDS(category)[i])

\* faulty variant: the Industry keywords are examined before the Government ones
classify_categories_industry_first(sponsor_name) ==
    IF isna(sponsor_name) \/ Upper(sponsor_name) \in {<<"U","N","K","N","O","W","N">>, <<>>}
    THEN "Unknown"
    ELSE LET sponsor_upper == Upper(sponsor_name)
         IN  IF AnyKeyword(sponsor_upper, "Industry") THEN "Industry"
             ELSE IF AnyKeyword(sponsor_upper, "Government") THEN "Government"
             ELSE IF AnyKeyword(sponsor_upper, "Non-profit") THEN "Non-profit"
             ELSE "Other"

classify_categories(sponsor_name) ==
    IF isna(sponsor_name) \/ Upper(sponsor_name) \in {<<"U","N","K","N","O","W","N">>, <<>>}
    THEN "Unknown"
    ELSE LET sponsor_upper == Upper(sponsor_name)
         IN  IF AnyKeyword(sponsor_upper, "Government") THEN "Government"
             ELSE IF AnyKeyword(sponsor_upper, "Industry") THEN "Industry"
             ELSE IF AnyKeyword(sponsor_upper, "Non-profit") THEN "Non-profit"
             ELSE "Other"

\* faulty variant: an absent value is passed through as the text of NaN
map_income_absent_passed(code_str) ==
    IF isna(code_str) THEN "nan"
    ELSE LET code == FirstToken(Upper(Strip(code_str)))
             hits == {i \in 1..Len(INCOME_LEVELS) : InList(code, INCOME_MAP(INCOME_LEVELS[i]))}
         IN  IF hits = {} THEN "Unknown" ELSE INCOME_LEVELS[SetMin(hits)]

\* faulty variant: the value is not upper-cased before the lookup
map_income_case_sensitive(code_str) ==
    IF isna(code_str) THEN "Unknown"
    ELSE LET code == FirstToken(Strip(code_str))
             hits == {i \in 1..Len(INCOME_LEVELS) : InList(code, INCOME_MAP(INCOME_LEVELS[i]))}
         IN  IF hits = {} THEN "Unknown" ELSE INCOME_LEVELS[SetMin(hits)]

map_income(code_str) ==
    IF isna(code_str) THEN "Unknown"
    ELSE LET code == FirstToken(Upper(Strip(code_str)))
             hits == {i \in 1..Len(INCOME_LEVELS) : InList(code, INCOME_MAP(INCOME_LEVELS[i]))}
         IN  IF hits = {} THEN "Unknown" ELSE INCOME_LEVELS[SetMin(hits)]

MAX_AGE_YEARS == 120

MAX_AGE_MONTHS == 1440

\* faulty variant: the upper bounds are exclusive
validate_age_exclusive(age_text) ==
    IF isna(age_text) THEN TRUE
    ELSE LET text == Lower(age_text)
             numbers == FirstDigitRun(text)
             age == ToInt(numbers)
         IN  IF numbers = <<>> THEN TRUE
             ELSE IF Contains(text, <<"y","e","a","r">>) \/ Contains(text, <<"y">>)
                  THEN 0 <= age /\ age < MAX_AGE_YEARS
             ELSE IF Contains(text, <<"m","o","n","t","h">>) \/ Contains(text, <<"m">>)
                  THEN 0 <= age /\ age < MAX_AGE_MONTHS
             ELSE IF Contains(text, <<"d","a","y">>) \/ Contains(text, <<"w","e","e","k">>)
                  THEN TRUE
             ELSE 0 <= age /\ age < MAX_AGE_YEARS

validate_age(age_text) ==
    IF isna(age_text) THEN TRUE
    ELSE LET text == Lower(age_text)
             numbers == FirstDigitRun(text)
             age == ToInt(numbers)
         IN  IF numbers = <<>> THEN TRUE
             ELSE IF Contains(text, <<"y","e","a","r">>) \/ Contains(text, <<"y">>)
                  THEN 0 <= age /\ age <= MAX_AGE_YEARS
             ELSE IF Contains(text, <<"m","o","n","t","h">>) \/ Contains(text, <<"m">>)
                  THEN 0 <= age /\ age <= MAX_AGE_MONTHS
             ELSE IF Contains(text, <<"d","a","y">>) \/ Contains(text, <<"w","e","e","k">>)
                  THEN TRUE
             ELSE 0 <= age /\ age <= MAX_AGE_YEARS

(***************************************************************************)
(* CleanData.py: the cell transforms of the pandas calls.  A numeric cell  *)
(* is <<n>>, or <<n, 2>> for n/2 with n odd, and NaN is <<>>.              *)
(***************************************************************************)
NaN == <<>>

IsLeap(y) == (y % 4 = 0 /\ y % 100 # 0) \/ y % 400 = 0

DaysInMonth(y, m) ==
    IF m = 2 THEN (IF IsLeap(y) THEN 29 ELSE 28)
    ELSE IF m \in {4, 6, 9, 11} THEN 30 ELSE 31

\* pd.to_datetime(text, format='%Y-%m-%d', errors='coerce'):
\* <<year, month, day>>, or <<>> (NaT) for a text that is no such date.
\* The input texts carry four-digit years within the Timestamp range and
\* two-digit months and days.
to_datetime(text) ==
    IF isna(text) THEN <<>>
    ELSE LET dashes == {i \in 1..Len(text) : text[i] = "-"}
         IN  IF Cardinality(dashes) # 2 THEN <<>>
             ELSE LET y == SubSeq(text, 1, SetMin(dashes) - 1)
                      m == SubSeq(text, SetMin(dashes) + 1, SetMax(dashes) - 1)
                      d == SubSeq(text, SetMax(dashes) + 1, Len(text))
                  IN  IF /\ Len(y) = 4 /\ AllDigits(y)
                         /\ Len(m) = 2 /\ AllDigits(m)
                         /\ Len(d) = 2 /\ AllDigits(d)
                         /\ ToInt(m) \in 1..12
                         /\ ToInt(d) \in 1..DaysInMonth(ToInt(y), ToInt(m))
                      THEN <<ToInt(y), ToInt(m), ToInt(d)>>
                      ELSE <<>>

\* faulty variant: the date is written day first
strftime_day_first(date) ==
    IF date = <<>> THEN NA
    ELSE DigitsOf(date[3], 2) \o <<"-">> \o DigitsOf(date[2], 2) \o <<"-">> \o DigitsOf(date[1], 4)

\* .dt.strftime('%Y-%m-%d'), NaT giving NaN
strftime(date) ==
    IF date = <<>> THEN NA
    ELSE DigitsOf(date[1], 4) \o <<"-">> \o DigitsOf(date[2], 2) \o <<"-">> \o DigitsOf(date[3], 2)

\* .dt.year, NaT giving NaN
dt_year(date) == IF date = <<>> THEN NaN ELSE <<date[1]>>

RECURSIVE RemoveTags(_)
\* re.sub(r'<[^>]+>', '', s): a '<' opens a tag when the next '>' comes after
\* at least one other character
RemoveTags(s) ==
    LET opens == {i \in 1..Len(s) :
                     /\ s[i] = "<"
                     /\ \E j \in (i + 2)..Len(s) :
                           s[j] = ">" /\ \A k \in (i + 1)..(j - 1) : s[k] # ">"}
    IN  IF opens = {} THEN s
        ELSE LET i == SetMin(opens)
                 j == SetMin({k \in (i + 2)..Len(s) : s[k] = ">"})
             IN  SubSeq(s, 1, i - 1) \o RemoveTags(SubSeq(s, j + 1, Len(s)))

RECURSIVE CollapseSpaces(_)
\* re.sub(r'\s+', ' ', s)
CollapseSpaces(s) ==
    IF s = <<>> THEN <<>>
    ELSE IF IsSpace(Head(s))
         THEN LET rest == {i \in 1..Len(s) : ~IsSpace(s[i])}
              IN  IF rest = {} THEN <<" ">>
                  ELSE <<" ">> \o CollapseSpaces(SubSeq(s, SetMin(rest), Len(s)))
         ELSE <<Head(s)>> \o CollapseSpaces(Tail(s))

\* faulty variant: a text cleaned down to nothing is returned as the empty text
clean_html_tags_keeping_empty(text) ==
    IF isna(text) THEN text
    ELSE LET stripped == RemoveTags(text)
             unescaped == Replace(Replace(stripped, <<"\\","r","\\","n">>, <<" ">>), <<"\\","n">>, <<" ">>)
         IN  Strip(CollapseSpaces(unescaped))

clean_html_tags(text) ==
    IF isna(text) THEN text
    ELSE LET stripped == RemoveTags(text)
             unescaped == Replace(Replace(stripped, <<"\\","r","\\","n">>, <<" ">>), <<"\\","n">>, <<" ">>)
             cleaned == Strip(CollapseSpaces(unescaped))
         IN  IF cleaned # <<>> THEN cleaned ELSE NA

\* pd.to_numeric(text, errors='coerce') on the texts of integers
to_numeric(text) ==
    IF isna(text) \/ text = <<>> THEN NaN
    ELSE IF AllDigits(text) THEN <<ToInt(text)>>
    ELSE IF Head(text) = "-" /\ AllDigits(Tail(text)) THEN <<0 - ToInt(Tail(text))>>
    ELSE NaN

MAX_SAMPLE_SIZE == 1000000

\* faulty variant: the upper bound is exclusive
InSampleRange_exclusive(value) ==
    \/ value = NaN
    \/ LET twice == IF Len(value) = 2 THEN value[1] ELSE 2 * value[1]
       IN  twice > 0 /\ twice < 2 * MAX_SAMPLE_SIZE

\* the row mask of the target_sample_size filter
InSampleRange(value) ==
    \/ value = NaN
    \/ LET twice == IF Len(value) = 2 THEN value[1] ELSE 2 * value[1]
       IN  twice > 0 /\ twice <= 2 * MAX_SAMPLE_SIZE

\* faulty variant: of an even number of values the upper middle one is taken
median_upper_middle(values) ==
    LET present == SelectSeq(values, LAMBDA v : v # NaN)
        sorted == SortSeq([i \in 1..Len(present) |-> present[i][1]], LAMBDA a, b : a < b)
        n == Len(present)
    IN  IF n = 0 THEN NaN ELSE <<sorted[n \div 2 + 1]>>

\* Series.median(): NaN skipped, the middle of the sorted values
median(values) ==
    LET present == SelectSeq(values, LAMBDA v : v # NaN)
        sorted == SortSeq([i \in 1..Len(present) |-> present[i][1]], LAMBDA a, b : a < b)
        n == Len(present)
    IN  IF n = 0 THEN NaN
        ELSE IF n % 2 = 1 THEN <<sorted[(n + 1) \div 2]>>
        ELSE LET sum == sorted[n \div 2] + sorted[n \div 2 + 1]
             IN  IF sum % 2 = 0 THEN <<sum \div 2>> ELSE <<sum, 2>>

\* the names of the known countries of a country_codes cell (lines 163-174)
CountriesOfCell(cell) ==
    LET codes_str == Strip(cell)
        pieces == IF Contains(codes_str, <<"|">>)
                  THEN LET parts == SplitOn(codes_str, "|")
                       IN  [i \in 1..Len(parts) |-> Strip(parts[i])]
                  ELSE <<codes_str>>
        known == SelectSeq(pieces, LAMBDA c : IsCountryCode(Upper(c)))
    IN  [i \in 1..Len(known) |-> CountryName(Upper(known[i]))]

\* the names of the known countries of a cell, as line 186 splits it
IndustryCountriesOfCell(cell) ==
    LET pieces == Words(Replace(Upper(cell), <<"|">>, <<" ">>))
        known == SelectSeq(pieces, LAMBDA c : IsCountryCode(c))
    IN  [i \in 1..Len(known) |-> CountryName(known[i])]

RECURSIVE Flatten(_)
Flatten(lists) ==
    IF lists = <<>> THEN <<>> ELSE Head(lists) \o Flatten(Tail(lists))

\* pd.Series(names).value_counts(): name -> number of occurrences
value_counts(names) ==
    [n \in {names[i] : i \in 1..Len(names)} |->
        Cardinality({i \in 1..Len(names) : names[i] = n})]

(***************************************************************************)
(* CleanData.py: the columns and the input tables                          *)
(***************************************************************************)
date_fields == <<"date_registration", "date_enrollment">>

html_fields ==
    <<"inclusion_criteria", "exclusion_criteria", "primary_outcome",
      "secondary_outcome", "intervention">>

sensitive_fields ==
    <<"contact_affiliation", "secondary_sponsor", "web_address", "results_url_link">>

fill_fields ==
    <<"standardised_condition", "countries", "primary_sponsor", "phase", "study_type">>

Elems(list) == {list[i] : i \in 1..Len(list)}

\* the columns the script names
ExpectedColumns ==
    Elems(date_fields) \cup Elems(html_fields) \cup Elems(sensitive_fields)
        \cup Elems(fill_fields)
        \cup {"target_sample_size", "inclusion_age_min", "inclusion_age_max",
              "results_ind", "country_codes"}

MaxRows == 3

MaxMissing == 1

\* the columns an input file may lack
OptionalColumns ==
    {"date_registration", "primary_sponsor", "country_codes", "results_ind",
     "target_sample_size", "inclusion_age_max", "secondary_sponsor"}

BaseRow ==
    [c \in ExpectedColumns |->
        CASE c = "date_registration" -> <<"2","0","2","0","-","0","3","-","1","5">>
          [] c = "date_enrollment" -> <<"2","0","2","0","-","0","4","-","0","1">>
          [] c = "inclusion_criteria" -> <<"<","b",">","A","d","u","l","t","s","<","/","b",">"," "," ","o","n","l","y">>
          [] c = "exclusion_criteria" -> <<"<","b","r",">">>
          [] c = "primary_outcome" -> <<"C","u","r","e","\\","r","\\","n","r","a","t","e">>
          [] c = "secondary_outcome" -> NA
          [] c = "intervention" -> <<"D","r","u","g"," ","<","i",">","A","<","/","i",">">>
          [] c = "target_sample_size" -> <<"5","0","0">>
          [] c = "inclusion_age_min" -> <<"1","8"," ","y","e","a","r","s">>
          [] c = "inclusion_age_max" -> <<"6","5"," ","y","e","a","r","s">>
          [] c = "contact_affiliation" -> <<"S","i","t","e"," ","1">>
          [] c = "secondary_sponsor" -> NA
          [] c = "web_address" -> <<"e","x","a","m","p","l","e",".","o","r","g">>
          [] c = "results_url_link" -> NA
          [] c = "standardised_condition" -> <<"C","h","a","g","a","s"," ","d","i","s","e","a","s","e">>
          [] c = "countries" -> <<"U","n","i","t","e","d"," ","S","t","a","t","e","s">>
          [] c = "primary_sponsor" -> <<"N","a","t","i","o","n","a","l"," ","I","n","s","t","i","t","u","t","e"," ","o","f"," ","H","e","a","l","t","h">>
          [] c = "phase" -> NA
          [] c = "study_type" -> <<"I","n","t","e","r","v","e","n","t","i","o","n","a","l">>
          [] c = "results_ind" -> <<"Y","e","s">>
          [] c = "country_codes" -> <<"U","S","A">>]

\* BaseRow with the cells of changes replaced
Row(changes) ==
    [c \in ExpectedColumns |-> IF c \in DOMAIN changes THEN changes[c] ELSE BaseRow[c]]

SampleRows ==
    << BaseRow,
       Row([target_sample_size |-> <<"1","0","0","0","0","0","1">>, primary_sponsor |-> <<"P","f","i","z","e","r"," ","I","n","c">>,
            results_ind |-> <<"N","o">>]),
       Row([target_sample_size |-> NA, primary_sponsor |-> NA, country_codes |-> NA,
            results_ind |-> NA, inclusion_age_min |-> NA, inclusion_age_max |-> NA]),
       Row([target_sample_size |-> <<"1","0","0","0","0","0","0">>, inclusion_age_min |-> <<"6"," ","m","o","n","t","h","s">>,
            inclusion_age_max |-> <<"8","0"," ","y">>,
            primary_sponsor |-> <<"M","i","n","i","s","t","r","y"," ","o","f"," ","H","e","a","l","t","h"," ","P","h","a","r","m","a"," ","C","o","r","p">>,
            country_codes |-> <<"I","N","D","|","U","S","A">>, results_ind |-> <<" ","y","e","s"," ">>]),
       Row([target_sample_size |-> <<"0">>, primary_sponsor |-> <<"U","n","i","v","e","r","s","i","t","y"," ","H","o","s","p","i","t","a","l">>,
            country_codes |-> <<"b","r","a">>, results_ind |-> <<"Y","E","S">>]),
       Row([target_sample_size |-> <<"-","5">>, country_codes |-> <<"K","E","N">>]),
       Row([target_sample_size |-> <<"a","b","c">>, inclusion_age_min |-> <<"1","5","0"," ","y","e","a","r","s">>,
            primary_sponsor |-> <<"A","c","m","e"," ","L","t","d">>, country_codes |-> <<"B","R","A"," ","|"," ","A","R","G">>]),
       Row([target_sample_size |-> <<"2","0">>, inclusion_age_max |-> <<"1","5","0"," ","y","e","a","r","s">>,
            results_ind |-> <<"N","o">>]),
       Row([target_sample_size |-> <<"3","0","0">>, inclusion_age_min |-> <<"5","0","0"," ","d","a","y","s">>,
            primary_sponsor |-> <<"A","c","m","e"," ","P","h","a","r","m","a">>, country_codes |-> <<"K","E","N",","," ","I","N","D">>,
            results_ind |-> <<"y","e","s">>]),
       Row([target_sample_size |-> <<"4","1">>, inclusion_age_min |-> <<"3","0"," ","d","a","y","s">>,
            inclusion_age_max |-> <<"5","0","0"," ","w","e","e","k","s">>, date_registration |-> <<"1","5","/","0","3","/","2","0","2","0">>,
            primary_sponsor |-> <<"u","n","k","n","o","w","n">>, country_codes |-> <<"X","Y","Z">>,
            results_ind |-> <<"N","o">>]),
       Row([target_sample_size |-> <<"7">>, date_registration |-> NA,
            inclusion_age_min |-> <<"N","e","w","b","o","r","n">>, inclusion_age_max |-> <<"N","o"," ","l","i","m","i","t">>,
            inclusion_criteria |-> <<" ","<","p",">"," ","<","/","p",">"," ">>,
            primary_sponsor |-> <<"C","o","m","m","u","n","i","t","y"," ","C","l","i","n","i","c">>, country_codes |-> <<"|","I","N","D">>]),
       Row([target_sample_size |-> NA, inclusion_age_min |-> <<"2"," ","m","o","n","t","h","s">>,
            inclusion_age_max |-> <<"1","4","4","1"," ","m","o","n","t","h","s">>, date_registration |-> <<"2","0","1","9","-","0","2","-","3","0">>,
            primary_sponsor |-> <<"H","e","l","s","i","n","k","i"," ","U","n","i","v">>, country_codes |-> <<"i","n","d"," ","u","s","a">>,
            results_ind |-> NA]) >>

\* the selections of at most MaxRows sample rows, in their order
RECURSIVE Selections(_)
Selections(from) ==
    IF from > Len(SampleRows) THEN {<<>>}
    ELSE LET later == Selections(from + 1)
         IN  later \cup {<<SampleRows[from]>> \o t : t \in {u \in later : Len(u) < MaxRows}}

\* the column sets of the input files: at most MaxMissing optional columns lack
SourceColumns ==
    {ExpectedColumns \ missing : missing \in {m \in SUBSET OptionalColumns : Cardinality(m) <= MaxMissing}}

\* a table restricted to the columns cols
Project(rows, cols) ==
    [i \in 1..Len(rows) |-> [c \in cols |-> rows[i][c]]]

Sources ==
    {[ok |-> FALSE, columns |-> {}, rows |-> <<>>]}
        \cup {[ok |-> TRUE, columns |-> cols, rows |-> Project(t, cols)] :
                 cols \in SourceColumns, t \in Selections(1)}

(***************************************************************************)
(* CleanData.py: the run, one action per statement block                   *)
(***************************************************************************)
CallIdle == fn = "" /\ arg = NA /\ ret = <<>>

MainIdle ==
    /\ main_pc = "idle" /\ script_index = 0 /\ success = 0 /\ failed = 0
    /\ started = <<>> /\ exists = {}

Init ==
    /\ pc = "start"
    /\ source \in Sources
    /\ columns = {}
    /\ df = <<>>
    /\ published_df = <<>>
    /\ files = <<>>
    /\ outliers_removed = 0
    /\ out_dir = FALSE
    /\ error = ""
    /\ CallIdle
    /\ MainIdle

\* df[col] = values: column col set row by row
Assign(rows, col, values) ==
    [i \in 1..Len(rows) |->
        [c \in (DOMAIN rows[i]) \cup {col} |-> IF c = col THEN values[i] ELSE rows[i][c]]]

\* df[mask]: the rows at which the boolean mask is true
Filter(rows, mask) ==
    LET kept == SelectSeq([i \in 1..Len(rows) |-> i], LAMBDA i : mask[i])
    IN  [k \in 1..Len(kept) |-> rows[kept[k]]]

\* faulty variant: the table is saved before the exception ends the run
Raise_saving_partial(e) ==
    /\ pc' = "failed"
    /\ error' = e
    /\ files' = ("cleaned_ictrp.csv" :> df) @@ files
    /\ UNCHANGED <<source, columns, df, published_df, outliers_removed, out_dir>>

\* the statement raises: the run ends with the exception e
Raise(e) ==
    /\ pc' = "failed"
    /\ error' = e
    /\ UNCHANGED <<source, columns, df, published_df, files, outliers_removed, out_dir>>

\* line 7: os.makedirs("CleanedData", exist_ok=True)
MakeOutputDir ==
    /\ pc = "start"
    /\ out_dir' = TRUE
    /\ pc' = "load"
    /\ UNCHANGED <<source, columns, df, published_df, files, outliers_removed, error, callVars, mainVars>>

\* lines 44-46: pd.read_csv
Load ==
    /\ pc = "load"
    /\ \/ /\ source.ok
          /\ df' = source.rows
          /\ columns' = source.columns
          /\ pc' = "dates"
          /\ UNCHANGED <<source, published_df, files, outliers_removed, out_dir, error>>
       \/ /\ ~source.ok
          /\ Raise("FileNotFoundError")
    /\ UNCHANGED <<callVars, mainVars>>

\* lines 49-52: the date fields present are rewritten as YYYY-MM-DD or NaN
NormalizedDates(rows, cols) ==
    [i \in 1..Len(rows) |->
        [c \in DOMAIN rows[i] |->
            IF c \in Elems(date_fields) /\ c \in cols
            THEN strftime(to_datetime(rows[i][c]))
            ELSE rows[i][c]]]

NormalizeDates ==
    /\ pc = "dates"
    /\ df' = NormalizedDates(df, columns)
    /\ pc' = "year"
    /\ UNCHANGED <<source, columns, published_df, files, outliers_removed, out_dir, error, callVars, mainVars>>

\* line 55: the year of date_registration, NaN for a date that is absent
WithYear(rows) ==
    Assign(rows, "Year", [i \in 1..Len(rows) |-> dt_year(to_datetime(rows[i]["date_registration"]))])

\* line 55: df["Year"], read from df["date_registration"] without a presence test
DeriveYear ==
    /\ pc = "year"
    /\ \/ /\ "date_registration" \in columns
          /\ df' = WithYear(df)
          /\ columns' = columns \cup {"Year"}
          /\ pc' = "html"
          /\ UNCHANGED <<source, published_df, files, outliers_removed, out_dir, error>>
       \/ /\ "date_registration" \notin columns
          /\ Raise("KeyError")
    /\ UNCHANGED <<callVars, mainVars>>

\* lines 73-76
StrippedMarkup(rows, cols) ==
    [i \in 1..Len(rows) |->
        [c \in DOMAIN rows[i] |->
            IF c \in Elems(html_fields) /\ c \in cols
            THEN clean_html_tags(rows[i][c])
            ELSE rows[i][c]]]

StripMarkup ==
    /\ pc = "html"
    /\ df' = StrippedMarkup(df, columns)
    /\ pc' = "sample"
    /\ UNCHANGED <<source, columns, published_df, files, outliers_removed, out_dir, error, callVars, mainVars>>

\* line 83: target_sample_size coerced from its texts
Coerced(rows) ==
    Assign(rows, "target_sample_size",
           [i \in 1..Len(rows) |-> to_numeric(rows[i]["target_sample_size"])])

\* lines 85-86: the row filter on the numeric target_sample_size
InRangeRows(rows) ==
    Filter(rows, [i \in 1..Len(rows) |-> InSampleRange(rows[i]["target_sample_size"])])

\* lines 82-88: coercion of target_sample_size, then the row filter
SampleSizeFiltered(rows) == InRangeRows(Coerced(rows))

FilterSampleSize ==
    /\ pc = "sample"
    /\ \/ /\ "target_sample_size" \in columns
          /\ df' = SampleSizeFiltered(df)
          /\ outliers_removed' = outliers_removed + (Len(df) - Len(SampleSizeFiltered(df)))
       \/ /\ "target_sample_size" \notin columns
          /\ UNCHANGED <<df, outliers_removed>>
    /\ pc' = "age"
    /\ UNCHANGED <<source, columns, published_df, files, out_dir, error, callVars, mainVars>>

\* faulty variant: only inclusion_age_min is validated
AgeFiltered_min_only(rows) ==
    Filter(rows, [i \in 1..Len(rows) |-> validate_age(rows[i]["inclusion_age_min"])])

\* faulty variant: the rows valid on the minimum and those valid on the maximum
\* are put one after the other
AgeFiltered_concatenated(rows) ==
    Filter(rows, [i \in 1..Len(rows) |-> validate_age(rows[i]["inclusion_age_min"])])
        \o Filter(rows, [i \in 1..Len(rows) |-> validate_age(rows[i]["inclusion_age_max"])])

\* lines 115-116: the two age masks, one after the other
AgeFiltered(rows) ==
    LET by_min == Filter(rows, [i \in 1..Len(rows) |-> validate_age(rows[i]["inclusion_age_min"])])
    IN  Filter(by_min, [i \in 1..Len(by_min) |-> validate_age(by_min[i]["inclusion_age_max"])])

\* lines 113-118.  On a table without rows Series.apply calls validate_age
\* not once and returns an empty Series of the column's dtype instead of
\* booleans; df[...] then takes it as a row mask, or as an empty list of
\* column labels, which leaves a table without columns.
FilterAge ==
    /\ pc = "age"
    /\ \/ /\ "inclusion_age_min" \in columns /\ "inclusion_age_max" \in columns
          /\ Len(df) > 0
          /\ df' = AgeFiltered(df)
          /\ outliers_removed' = outliers_removed + (Len(df) - Len(AgeFiltered(df)))
          /\ \/ UNCHANGED columns
             \/ /\ \A i \in 1..Len(df) : ~validate_age(df[i]["inclusion_age_min"])
                /\ columns' = {}
          /\ pc' = "drop"
          /\ UNCHANGED <<source, published_df, files, out_dir, error>>
       \/ /\ "inclusion_age_min" \in columns /\ "inclusion_age_max" \in columns
          /\ Len(df) = 0
          /\ \/ /\ pc' = "drop"
                /\ UNCHANGED <<source, columns, df, published_df, files, outliers_removed,
                               out_dir, error>>
             \/ Raise("KeyError")
       \/ /\ ~("inclusion_age_min" \in columns /\ "inclusion_age_max" \in columns)
          /\ pc' = "drop"
          /\ UNCHANGED <<source, columns, df, published_df, files, outliers_removed, out_dir, error>>
    /\ UNCHANGED <<callVars, mainVars>>

RECURSIVE DropEach_but_last(_, _)
\* faulty variant: the loop stops before the last field of the list
DropEach_but_last(cols, fields) ==
    IF Len(fields) <= 1 THEN cols
    ELSE DropEach_but_last(IF Head(fields) \in cols THEN cols \ {Head(fields)} ELSE cols,
                           Tail(fields))

RECURSIVE DropEach(_, _)
\* lines 125-128: each field of the list is dropped when the table has it
DropEach(cols, fields) ==
    IF fields = <<>> THEN cols
    ELSE DropEach(IF Head(fields) \in cols THEN cols \ {Head(fields)} ELSE cols, Tail(fields))

\* lines 123-128
DropFields ==
    /\ pc = "drop"
    /\ columns' = DropEach(columns, sensitive_fields)
    /\ df' = Project(df, DropEach(columns, sensitive_fields))
    /\ pc' = "fill"
    /\ UNCHANGED <<source, published_df, files, outliers_removed, out_dir, error, callVars, mainVars>>

\* faulty variant: results_ind is filled like the categorical fields
DefaultsFilled_all_unknown(rows, cols) ==
    [i \in 1..Len(rows) |->
        [c \in DOMAIN rows[i] |->
            IF c \in (Elems(fill_fields) \cup {"results_ind"}) /\ c \in cols /\ isna(rows[i][c])
            THEN <<"U","n","k","n","o","w","n">>
            ELSE rows[i][c]]]

\* lines 134-141: fillna("Unknown") on the fill fields, fillna("No") on results_ind
DefaultsFilled(rows, cols) ==
    [i \in 1..Len(rows) |->
        [c \in DOMAIN rows[i] |->
            IF c \in Elems(fill_fields) /\ c \in cols /\ isna(rows[i][c]) THEN <<"U","n","k","n","o","w","n">>
            ELSE IF c = "results_ind" /\ c \in cols /\ isna(rows[i][c]) THEN <<"N","o">>
            ELSE rows[i][c]]]

FillDefaults ==
    /\ pc = "fill"
    /\ df' = DefaultsFilled(df, columns)
    /\ pc' = "impute"
    /\ UNCHANGED <<source, columns, published_df, files, outliers_removed, out_dir, error, callVars, mainVars>>

\* lines 144-147
Imputed(rows) ==
    LET median_value == median([i \in 1..Len(rows) |-> rows[i]["target_sample_size"]])
    IN  Assign(rows, "target_sample_size",
               [i \in 1..Len(rows) |->
                   IF rows[i]["target_sample_size"] = NaN THEN median_value
                   ELSE rows[i]["target_sample_size"]])

ImputeMedian ==
    /\ pc = "impute"
    /\ \/ /\ "target_sample_size" \in columns
          /\ df' = Imputed(df)
       \/ /\ "target_sample_size" \notin columns
          /\ UNCHANGED df
    /\ pc' = "sponsor"
    /\ UNCHANGED <<source, columns, published_df, files, outliers_removed, out_dir, error, callVars, mainVars>>

\* line 150
WithSponsorCategory(rows) ==
    Assign(rows, "sponsor_category",
           [i \in 1..Len(rows) |-> classify_categories(rows[i]["primary_sponsor"])])

\* line 151
WithIncomeLevel(rows) ==
    Assign(rows, "income_level", [i \in 1..Len(rows) |-> map_income(rows[i]["country_codes"])])

\* line 150: read from df["primary_sponsor"] without a presence test
DeriveSponsorCategory ==
    /\ pc = "sponsor"
    /\ \/ /\ "primary_sponsor" \in columns
          /\ df' = WithSponsorCategory(df)
          /\ columns' = columns \cup {"sponsor_category"}
          /\ pc' = "income"
          /\ UNCHANGED <<source, published_df, files, outliers_removed, out_dir, error>>
       \/ /\ "primary_sponsor" \notin columns
          /\ Raise("KeyError")
    /\ UNCHANGED <<callVars, mainVars>>

\* line 151: read from df["country_codes"] without a presence test
DeriveIncomeLevel ==
    /\ pc = "income"
    /\ \/ /\ "country_codes" \in columns
          /\ df' = WithIncomeLevel(df)
          /\ columns' = columns \cup {"income_level"}
          /\ pc' = "summary"
          /\ UNCHANGED <<source, published_df, files, outliers_removed, out_dir, error>>
       \/ /\ "country_codes" \notin columns
          /\ Raise("KeyError")
    /\ UNCHANGED <<callVars, mainVars>>

\* lines 154-157: the distribution is printed, one line per category present
SponsorSummary ==
    /\ pc = "summary"
    /\ pc' = "country_stats"
    /\ UNCHANGED <<source, columns, df, published_df, files, outliers_removed, out_dir, error, callVars, mainVars>>

\* the country names of the non-absent country_codes cells of a table
CountryList(rows) ==
    LET cells == SelectSeq([i \in 1..Len(rows) |-> rows[i]["country_codes"]], LAMBDA c : ~isna(c))
    IN  Flatten([i \in 1..Len(cells) |-> CountriesOfCell(cells[i])])

\* lines 160-178
CountryStatistics ==
    /\ pc = "country_stats"
    /\ files' = IF "country_codes" \in columns
                THEN ("country_statistics.csv" :> value_counts(CountryList(df))) @@ files
                ELSE files
    /\ pc' = "industry_stats"
    /\ UNCHANGED <<source, columns, df, published_df, outliers_removed, out_dir, error, callVars, mainVars>>

\* lines 182-188
IndustryCountries(rows) ==
    LET industry_df == Filter(rows, [i \in 1..Len(rows) |-> rows[i]["sponsor_category"] = "Industry"])
        cells == SelectSeq([i \in 1..Len(industry_df) |-> industry_df[i]["country_codes"]],
                           LAMBDA c : ~isna(c))
    IN  Flatten([i \in 1..Len(cells) |-> IndustryCountriesOfCell(cells[i])])

\* lines 181-197
IndustryStatistics ==
    /\ pc = "industry_stats"
    /\ files' = IF /\ "country_codes" \in columns /\ "sponsor_category" \in columns
                   /\ IndustryCountries(df) # <<>>
                THEN ("country_Industry.csv" :> value_counts(IndustryCountries(df))) @@ files
                ELSE files
    /\ pc' = "results_posted"
    /\ UNCHANGED <<source, columns, df, published_df, outliers_removed, out_dir, error, callVars, mainVars>>

\* faulty variant: the flag compares the raw text with "Yes"
results_posted_raw(results_ind) == results_ind = <<"Y","e","s">>

\* line 200: df["results_ind"].str.upper().str.strip() == "YES"
results_posted(results_ind) == Strip(Upper(results_ind)) = <<"Y","E","S">>

WithResultsPosted(rows) ==
    Assign(rows, "results_posted", [i \in 1..Len(rows) |-> results_posted(rows[i]["results_ind"])])

\* line 201: df[df["results_posted"] == True].copy()
Published(rows) == Filter(rows, [i \in 1..Len(rows) |-> rows[i]["results_posted"] = TRUE])

\* lines 48-151 and 200: the passes over a table that went through them
\* before, its target_sample_size numeric already (pd.to_numeric leaves a
\* numeric column as it is) and the columns the passes read all present
Renormalized(rows, cols) ==
    LET dated == WithYear(NormalizedDates(rows, cols))
        stripped == StrippedMarkup(dated, cols)
        in_range == IF "target_sample_size" \in cols THEN InRangeRows(stripped) ELSE stripped
        aged == IF "inclusion_age_min" \in cols /\ "inclusion_age_max" \in cols
                THEN AgeFiltered(in_range) ELSE in_range
        kept == DropEach(cols, sensitive_fields)
        filled == DefaultsFilled(Project(aged, kept), kept)
        imputed == IF "target_sample_size" \in kept THEN Imputed(filled) ELSE filled
    IN  WithResultsPosted(WithIncomeLevel(WithSponsorCategory(imputed)))

\* lines 200-201: read from df["results_ind"] without a presence test
DeriveResultsPosted ==
    /\ pc = "results_posted"
    /\ \/ /\ "results_ind" \in columns
          /\ df' = WithResultsPosted(df)
          /\ columns' = columns \cup {"results_posted"}
          /\ published_df' = Published(WithResultsPosted(df))
          /\ pc' = "published_stats"
          /\ UNCHANGED <<source, files, outliers_removed, out_dir, error>>
       \/ /\ "results_ind" \notin columns
          /\ Raise("KeyError")
    /\ UNCHANGED <<callVars, mainVars>>

\* lines 204-219
PublishedStatistics ==
    /\ pc = "published_stats"
    /\ files' = IF "country_codes" \in columns
                THEN ("published_country_statistics.csv" :> value_counts(CountryList(published_df))) @@ files
                ELSE files
    /\ pc' = "report"
    /\ UNCHANGED <<source, columns, df, published_df, outliers_removed, out_dir, error, callVars, mainVars>>

\* lines 221-222: the shares divide by len(df)
ReportPublished ==
    /\ pc = "report"
    /\ \/ /\ Len(df) # 0
          /\ pc' = "write_cleaned"
          /\ UNCHANGED <<source, columns, df, published_df, files, outliers_removed, out_dir, error>>
       \/ /\ Len(df) = 0
          /\ Raise("ZeroDivisionError")
    /\ UNCHANGED <<callVars, mainVars>>

\* line 224
WriteCleaned ==
    /\ pc = "write_cleaned"
    /\ files' = ("cleaned_ictrp.csv" :> df) @@ files
    /\ pc' = "write_published"
    /\ UNCHANGED <<source, columns, df, published_df, outliers_removed, out_dir, error, callVars, mainVars>>

\* faulty variant: the table is narrowed to the published rows after it was saved
WritePublished_narrowing ==
    /\ pc = "write_published"
    /\ files' = ("published_trials.csv" :> published_df) @@ files
    /\ df' = published_df
    /\ pc' = "time_range"
    /\ UNCHANGED <<source, columns, published_df, outliers_removed, out_dir, error, callVars, mainVars>>

\* line 225
WritePublished ==
    /\ pc = "write_published"
    /\ files' = ("published_trials.csv" :> published_df) @@ files
    /\ pc' = "time_range"
    /\ UNCHANGED <<source, columns, df, published_df, outliers_removed, out_dir, error, callVars, mainVars>>

\* lines 227-230: int(df['Year'].min()) needs one present Year
ReportTimeRange ==
    /\ pc = "time_range"
    /\ \/ /\ \E i \in 1..Len(df) : df[i]["Year"] # NaN
          /\ pc' = "done"
          /\ UNCHANGED <<source, columns, df, published_df, files, outliers_removed, out_dir, error>>
       \/ /\ \A i \in 1..Len(df) : df[i]["Year"] = NaN
          /\ Raise("ValueError")
    /\ UNCHANGED <<callVars, mainVars>>

Next ==
    \/ MakeOutputDir
    \/ Load
    \/ NormalizeDates
    \/ DeriveYear
    \/ StripMarkup
    \/ FilterSampleSize
    \/ FilterAge
    \/ DropFields
    \/ FillDefaults
    \/ ImputeMedian
    \/ DeriveSponsorCategory
    \/ DeriveIncomeLevel
    \/ SponsorSummary
    \/ CountryStatistics
    \/ IndustryStatistics
    \/ DeriveResultsPosted
    \/ PublishedStatistics
    \/ ReportPublished
    \/ WriteCleaned
    \/ WritePublished
    \/ ReportTimeRange

Spec == Init /\ [][Next]_vars

(***************************************************************************)
(* Calls of the pure functions on bounded sets of texts                    *)
(***************************************************************************)
MaxFrags == 3

RECURSIVE Texts(_, _)
\* the concatenations of at most n fragments
Texts(frags, n) ==
    IF n = 0 THEN {<<>>}
    ELSE LET shorter == Texts(frags, n - 1)
         IN  shorter \cup {p \o f : p \in shorter, f \in frags}

SponsorFrags ==
    { <<"M","i","n","i","s","t","r","y"," ","o","f"," ","H","e","a","l","t","h"," ">>, <<"P","h","a","r","m","a"," ">>, <<"C","o","r","p">>, <<"U","n","i","v","e","r","s","i","t","y">>, <<"u","n","k","n","o","w","n">>,
      <<"U","N","K","N","O","W","N">>, <<"P","r","i","n","c","e"," ">>, <<"C","l","i","n","i","c"," ">>, <<"w","h","o">> }

AgeFrags ==
    { <<"0">>, <<"1">>, <<"1","2">>, <<"1","5">>, <<"3","0">>, <<"8","0">>, <<"1","4","4">>, <<"5","0","0">>,
      <<" ","y","e","a","r","s">>, <<" ","y">>, <<" ","Y">>, <<" ","m","o","n","t","h","s">>, <<" ","m">>, <<" ","d","a","y">>, <<" ","d","a","y","s">>,
      <<" ","w","e","e","k">>, <<" ","w","e","e","k","s">>, <<" ","h">> }

CodeFrags ==
    { <<"I","N","D">>, <<"U","S","A">>, <<"k","e","n">>, <<"B","R","A">>, <<"X","Y","Z">>, <<"|">>, <<",">>, <<";">>, <<"/">>, <<" ">> }

HtmlFrags ==
    { <<"<","b",">","A","g","e">>, <<"<","/","b",">">>, <<"<">>, <<">">>, <<"<","i",">">>, <<"1","8">>, <<" ">>, <<"\t">>, <<"\n">>, <<"\\","n">>, <<"\\","r","\\","n">>, <<"\\">> }

SponsorNames == {NA} \cup Texts(SponsorFrags, MaxFrags)

HtmlTexts == {NA} \cup Texts(HtmlFrags, MaxFrags)

AgeTexts == {NA} \cup Texts(AgeFrags, MaxFrags)

CodeTexts == {NA} \cup Texts(CodeFrags, MaxFrags)

RunIdle ==
    /\ pc = "idle"
    /\ source = [ok |-> FALSE, columns |-> {}, rows |-> <<>>]
    /\ columns = {}
    /\ df = <<>>
    /\ published_df = <<>>
    /\ files = <<>>
    /\ outliers_removed = 0
    /\ out_dir = FALSE
    /\ error = ""

FnInit ==
    /\ RunIdle
    /\ MainIdle
    /\ ret = <<>>
    /\ \/ fn = "classify_categories" /\ arg \in SponsorNames
       \/ fn = "map_income" /\ arg \in CodeTexts
       \/ fn = "validate_age" /\ arg \in AgeTexts
       \/ fn = "clean_html_tags" /\ arg \in HtmlTexts

CallClassifyCategories ==
    /\ fn = "classify_categories" /\ ret = <<>>
    /\ ret' = <<classify_categories(arg)>>
    /\ UNCHANGED <<fn, arg, runVars, mainVars>>

CallMapIncome ==
    /\ fn = "map_income" /\ ret = <<>>
    /\ ret' = <<map_income(arg)>>
    /\ UNCHANGED <<fn, arg, runVars, mainVars>>

CallValidateAge ==
    /\ fn = "validate_age" /\ ret = <<>>
    /\ ret' = <<validate_age(arg)>>
    /\ UNCHANGED <<fn, arg, runVars, mainVars>>

CallCleanHtmlTags ==
    /\ fn = "clean_html_tags" /\ ret = <<>>
    /\ ret' = <<clean_html_tags(arg)>>
    /\ UNCHANGED <<fn, arg, runVars, mainVars>>

FnNext == CallClassifyCategories \/ CallMapIncome \/ CallValidateAge \/ CallCleanHtmlTags

FnSpec == FnInit /\ [][FnNext]_vars

(***************************************************************************)
(* Main.py: the loop of main() over SCRIPTS                                *)
(***************************************************************************)
SCRIPTS ==
    <<"CleanData.py", "DataFit.py", "ExtractDrug.py", "Network.py", "visualization.py",
      "pregnant.py">>

\* how subprocess.run([sys.executable, script], check=True) can end
ProcessResults == {"returned", "CalledProcessError", "FileNotFoundError"}

\* lines 22-41: True when the process returned with status 0, False on
\* CalledProcessError and on FileNotFoundError
run_script(result) == result = "returned"

MainInit ==
    /\ RunIdle
    /\ CallIdle
    /\ main_pc = "loop"
    /\ script_index = 1
    /\ success = 0
    /\ failed = 0
    /\ started = <<>>
    /\ exists \in SUBSET Elems(SCRIPTS)

\* lines 57-60: a script that is not in the directory is skipped
SkipMissing ==
    /\ main_pc = "loop" /\ script_index <= Len(SCRIPTS)
    /\ SCRIPTS[script_index] \notin exists
    /\ script_index' = script_index + 1
    /\ UNCHANGED <<main_pc, success, failed, started, exists, runVars, callVars>>

\* lines 61 and 33: run_script hands the script to subprocess.run
StartScript ==
    /\ main_pc = "loop" /\ script_index <= Len(SCRIPTS)
    /\ SCRIPTS[script_index] \in exists
    /\ started' = Append(started, SCRIPTS[script_index])
    /\ main_pc' = "running"
    /\ UNCHANGED <<script_index, success, failed, exists, runVars, callVars>>

\* faulty variant: after a failure the loop goes on with the next script
ScriptEnds_continuing ==
    /\ main_pc = "running"
    /\ \E result \in ProcessResults :
          IF run_script(result)
          THEN success' = success + 1 /\ UNCHANGED failed
          ELSE failed' = failed + 1 /\ UNCHANGED success
    /\ script_index' = script_index + 1
    /\ main_pc' = "loop"
    /\ UNCHANGED <<started, exists, runVars, callVars>>

\* lines 61-66: the process ends; success is counted and the loop goes on, or
\* failed is counted and the loop is left
ScriptEnds ==
    /\ main_pc = "running"
    /\ \E result \in ProcessResults :
          IF run_script(result)
          THEN /\ success' = success + 1
               /\ script_index' = script_index + 1
               /\ main_pc' = "loop"
               /\ UNCHANGED failed
          ELSE /\ failed' = failed + 1
               /\ main_pc' = "report"
               /\ UNCHANGED <<success, script_index>>
    /\ UNCHANGED <<started, exists, runVars, callVars>>

\* line 57: the list is exhausted
LoopEnds ==
    /\ main_pc = "loop" /\ script_index > Len(SCRIPTS)
    /\ main_pc' = "report"
    /\ UNCHANGED <<script_index, success, failed, started, exists, runVars, callVars>>

\* lines 68-71: the counters are printed
Report ==
    /\ main_pc = "report"
    /\ main_pc' = "done"
    /\ UNCHANGED <<script_index, success, failed, started, exists, runVars, callVars>>

MainNext == SkipMissing \/ StartScript \/ ScriptEnds \/ LoopEnds \/ Report

MainSpec == MainInit /\ [][MainNext]_vars

(***************************************************************************)
(* Properties of the pure functions, stated for FnSpec                     *)
(***************************************************************************)
Returned(f) == fn = f /\ ret # <<>>

\* keyword k occurs in name, letter case ignored
OccursIgnoringCase(name, k) ==
    \E i \in 0..(Len(name) - Len(k)) :
        \A j \in 1..Len(k) : UpperChar(name[i + j]) = k[j]

MatchesCategory(name, category) ==
    \E n \in 1..Len(SPONSOR_KEYWORDS(category)) :
        OccursIgnoringCase(name, SPONSOR_KEYWORDS(category)[n])

IsUnknownName(name) ==
    \/ isna(name)
    \/ name = <<>>
    \/ Len(name) = 7 /\ OccursIgnoringCase(name, <<"U","N","K","N","O","W","N">>)

ExpectedCategory(name) ==
    CASE IsUnknownName(name) -> "Unknown"
      [] ~IsUnknownName(name) /\ MatchesCategory(name, "Government") -> "Government"
      [] ~IsUnknownName(name) /\ ~MatchesCategory(name, "Government")
            /\ MatchesCategory(name, "Industry") -> "Industry"
      [] ~IsUnknownName(name) /\ ~MatchesCategory(name, "Government")
            /\ ~MatchesCategory(name, "Industry")
            /\ MatchesCategory(name, "Non-profit") -> "Non-profit"
      [] OTHER -> "Other"

\* C2: classify_categories returns "Unknown" for an absent, empty or
\* (case-insensitively) "UNKNOWN" name, and otherwise the category of the first
\* of Government, Industry, Non-profit with a keyword occurring in the name
\* (case ignored), "Other" when no keyword occurs.
C2_ClassifyPrecedence ==
    Returned("classify_categories") => ret[1] = ExpectedCategory(arg)

\* a name with a Government and an Industry keyword was classified Government
C2_Witness ==
    /\ Returned("classify_categories")
    /\ arg = <<"M","i","n","i","s","t","r","y"," ","o","f"," ","H","e","a","l","t","h"," ","P","h","a","r","m","a"," ","C","o","r","p">>
    /\ MatchesCategory(arg, "Government") /\ MatchesCategory(arg, "Industry")
    /\ ret[1] = "Government"

HasDigit(text) == \E i \in 1..Len(text) : IsDigit(text[i])

HasLetters(text, letters) == Contains(Lower(text), letters)

ExpectedValidAge(text) ==
    IF isna(text) \/ ~HasDigit(text) THEN TRUE
    ELSE LET n == ToInt(FirstDigitRun(Lower(text)))
         IN  IF HasLetters(text, <<"y","e","a","r">>) \/ HasLetters(text, <<"y">>)
                  THEN 0 <= n /\ n <= 120
             ELSE IF HasLetters(text, <<"m","o","n","t","h">>) \/ HasLetters(text, <<"m">>)
                  THEN 0 <= n /\ n <= 1440
             ELSE IF HasLetters(text, <<"d","a","y">>) \/ HasLetters(text, <<"w","e","e","k">>)
                  THEN TRUE
             ELSE 0 <= n /\ n <= 120

\* C3: validate_age is true for an absent age and for a text without digits;
\* otherwise the first digit run n is judged by the first matching unit rule:
\* "year"/"y" -> n <= 120, "month"/"m" -> n <= 1440, "day"/"week" -> valid,
\* no unit -> n <= 120.
C3_ValidateAgeDispatch ==
    Returned("validate_age") => ret[1] = ExpectedValidAge(arg)

\* "150 years" was judged invalid
C3_Witness ==
    /\ Returned("validate_age")
    /\ arg = <<"1","5","0"," ","y","e","a","r","s">>
    /\ ret[1] = FALSE

\* a number followed by " day", " days", " week" or " weeks"
IsDayOrWeekAge(text) ==
    /\ ~isna(text)
    /\ \E unit \in {<<" ","d","a","y">>, <<" ","d","a","y","s">>, <<" ","w","e","e","k">>, <<" ","w","e","e","k","s">>} :
          /\ Len(text) > Len(unit)
          /\ SubSeq(text, Len(text) - Len(unit) + 1, Len(text)) = unit
          /\ \A i \in 1..(Len(text) - Len(unit)) : IsDigit(text[i])

\* C4: an age given in days or weeks is always valid.
C4_DayWeekAlwaysValid ==
    (Returned("validate_age") /\ IsDayOrWeekAge(arg)) => ret[1] = TRUE

\* the text before the first separator, characterised by its length
TokenBeforeSeparator(s) ==
    LET n == CHOOSE k \in 0..Len(s) :
                 /\ \A i \in 1..k : ~IsSeparator(s[i])
                 /\ k = Len(s) \/ IsSeparator(s[k + 1])
    IN  SubSeq(s, 1, n)

LevelsListing(code) ==
    {lvl \in {"Low", "Lower middle", "Upper middle", "High"} : InList(code, INCOME_MAP(lvl))}

ExpectedIncome(value) ==
    IF isna(value) THEN "Unknown"
    ELSE LET first == TokenBeforeSeparator(Upper(Strip(value)))
         IN  IF LevelsListing(first) = {} THEN "Unknown"
             ELSE CHOOSE lvl \in LevelsListing(first) : TRUE

\* C5: map_income returns "Unknown" for an absent value and otherwise the
\* income level listing the first token of the trimmed, upper-cased value
\* ("Unknown" if none lists it); later tokens have no influence.
C5_IncomeOfFirstToken ==
    Returned("map_income") => ret[1] = ExpectedIncome(arg)

\* "IND|USA" was mapped to the level of IND
C5_Witness ==
    /\ Returned("map_income")
    /\ arg = <<"I","N","D","|","U","S","A">>
    /\ ret[1] = "Lower middle"

(***************************************************************************)
(* Properties of the run, stated for Spec                                  *)
(***************************************************************************)
Written(name) == name \in DOMAIN files

Column(rows, col) == [i \in 1..Len(rows) |-> rows[i][col]]

\* the rows of the input whose coerced target_sample_size is absent or in (0, 1000000]
SourceRowsInRange ==
    SelectSeq(source.rows,
              LAMBDA r : LET v == to_numeric(r["target_sample_size"])
                         IN  v = NaN \/ (0 < v[1] /\ v[1] <= 1000000))

\* C1: the sample-size filter keeps exactly the rows whose coerced
\* target_sample_size is absent or in (0, 1000000]; afterwards every row has
\* it absent or in that range.
C1_SampleSizeFilter ==
    /\ (pc = "age" /\ "target_sample_size" \in columns) =>
          /\ Column(df, "inclusion_age_min") = Column(SourceRowsInRange, "inclusion_age_min")
          /\ Column(df, "countries") = Column(SourceRowsInRange, "countries")
          /\ Column(df, "target_sample_size")
                = [i \in 1..Len(SourceRowsInRange) |->
                      to_numeric(SourceRowsInRange[i]["target_sample_size"])]
          /\ outliers_removed = Len(source.rows) - Len(SourceRowsInRange)
    /\ (pc \in {"age", "drop", "fill", "impute"} /\ "target_sample_size" \in columns) =>
          \A i \in 1..Len(df) :
              \/ df[i]["target_sample_size"] = NaN
              \/ 0 < df[i]["target_sample_size"][1] /\ df[i]["target_sample_size"][1] <= 1000000

\* the filter dropped a row with 1000001 and kept a row with 1000000
C1_Witness ==
    /\ pc = "age" /\ "target_sample_size" \in columns
    /\ Len(source.rows) = 2
    /\ source.rows[1]["target_sample_size"] = <<"1","0","0","0","0","0","1">>
    /\ source.rows[2]["target_sample_size"] = <<"1","0","0","0","0","0","0">>
    /\ Len(df) = 1
    /\ df[1]["target_sample_size"] = <<1000000>>

\* C6: every record of the cleaned output has a sponsor_category among the
\* five categories and an income_level among the five levels, never absent.
C6_DerivedCategoriesPresent ==
    Written("cleaned_ictrp.csv") =>
        \A i \in 1..Len(files["cleaned_ictrp.csv"]) :
            LET r == files["cleaned_ictrp.csv"][i]
            IN  /\ "sponsor_category" \in DOMAIN r
                /\ r["sponsor_category"] \in {"Government", "Industry", "Non-profit", "Other", "Unknown"}
                /\ "income_level" \in DOMAIN r
                /\ r["income_level"] \in {"Low", "Lower middle", "Upper middle", "High", "Unknown"}

\* a record whose sponsor and country codes were absent in the input is in the
\* cleaned output with both categories "Unknown"
C6_Witness ==
    /\ Written("cleaned_ictrp.csv")
    /\ \E j \in 1..Len(source.rows) :
          isna(source.rows[j]["primary_sponsor"]) /\ isna(source.rows[j]["country_codes"])
    /\ \E i \in 1..Len(files["cleaned_ictrp.csv"]) :
          /\ files["cleaned_ictrp.csv"][i]["primary_sponsor"] = <<"U","n","k","n","o","w","n">>
          /\ isna(files["cleaned_ictrp.csv"][i]["country_codes"])
          /\ files["cleaned_ictrp.csv"][i]["sponsor_category"] = "Unknown"
          /\ files["cleaned_ictrp.csv"][i]["income_level"] = "Unknown"

\* the text, trimmed, reads YES in any letter case
ReadsYes(text) ==
    LET t == Strip(text)
    IN  Len(t) = 3 /\ UpperChar(t[1]) = "Y" /\ UpperChar(t[2]) = "E" /\ UpperChar(t[3]) = "S"

\* C7: results_posted is true exactly for a results_ind reading YES (an absent
\* one was filled with "No"); the published output is exactly the cleaned
\* records with results_posted true, and published plus unpublished counts
\* give the cleaned count.
C7_PublishedSubset ==
    (Written("cleaned_ictrp.csv") /\ Written("published_trials.csv")) =>
        LET cleaned == files["cleaned_ictrp.csv"]
            published == files["published_trials.csv"]
            unpublished == {i \in 1..Len(cleaned) : cleaned[i]["results_posted"] = FALSE}
        IN  /\ \A i \in 1..Len(cleaned) :
                  /\ ~isna(cleaned[i]["results_ind"])
                  /\ cleaned[i]["results_posted"] = ReadsYes(cleaned[i]["results_ind"])
            /\ published = SelectSeq(cleaned, LAMBDA r : r["results_posted"] = TRUE)
            /\ \A i \in 1..Len(published) : published[i]["results_posted"] = TRUE
            /\ Len(published) + Cardinality(unpublished) = Len(cleaned)

\* both outputs are written; one record reading " yes " is published, one whose
\* results_ind was absent reads "No" and is not
C7_Witness ==
    /\ Written("cleaned_ictrp.csv") /\ Written("published_trials.csv")
    /\ Len(files["cleaned_ictrp.csv"]) = 2
    /\ Len(files["published_trials.csv"]) = 1
    /\ files["published_trials.csv"][1]["results_ind"] = <<" ","y","e","s"," ">>
    /\ \E j \in 1..2 : isna(source.rows[j]["results_ind"])
    /\ \E i \in 1..2 :
          /\ files["cleaned_ictrp.csv"][i]["results_ind"] = <<"N","o">>
          /\ files["cleaned_ictrp.csv"][i]["results_posted"] = FALSE

AgeFilterApplies == "inclusion_age_min" \in columns /\ "inclusion_age_max" \in columns

\* C8: after the age filter (applied when the table has both age columns)
\* every remaining row has a valid inclusion_age_min and a valid
\* inclusion_age_max; a row with either one invalid is gone.
C8_AgeFilterBoth ==
    (pc = "drop" /\ AgeFilterApplies) =>
        \A i \in 1..Len(df) :
            validate_age(df[i]["inclusion_age_min"]) /\ validate_age(df[i]["inclusion_age_max"])

\* a row with a valid minimum and an invalid maximum age was removed
C8_Witness ==
    /\ pc = "drop" /\ AgeFilterApplies
    /\ Len(source.rows) = 2
    /\ validate_age(source.rows[2]["inclusion_age_min"])
    /\ source.rows[2]["inclusion_age_max"] = <<"1","5","0"," ","y","e","a","r","s">>
    /\ ~validate_age(source.rows[2]["inclusion_age_max"])
    /\ "target_sample_size" \in columns
    /\ InSampleRange(to_numeric(source.rows[1]["target_sample_size"]))
    /\ InSampleRange(to_numeric(source.rows[2]["target_sample_size"]))
    /\ Len(df) = 1
    /\ outliers_removed = 1

\* C9: a column missing from the input never makes the run fail.
C9_MissingColumnNoFailure == error # "KeyError"

AllTransformsDone ==
    /\ source.ok
    /\ {"Year", "sponsor_category", "income_level", "results_posted"} \subseteq columns
    /\ pc \in {"write_published", "time_range", "done", "failed"}
    /\ pc = "failed" => error = "ValueError"

\* C10: the cleaned and the published table are written only after every
\* transform has completed; a run that fails at load or in a transform has
\* written neither, and a run without a readable input has written nothing.
C10_OutputsAfterTransforms ==
    /\ (Written("cleaned_ictrp.csv") \/ Written("published_trials.csv")) => AllTransformsDone
    /\ Written("cleaned_ictrp.csv") => files["cleaned_ictrp.csv"] = df
    /\ Written("published_trials.csv") => files["published_trials.csv"] = published_df
    /\ (pc = "failed" /\ error \in {"FileNotFoundError", "KeyError", "ZeroDivisionError"}) =>
          ~Written("cleaned_ictrp.csv") /\ ~Written("published_trials.csv")
    /\ ~source.ok => DOMAIN files = {}

\* a run failed in the last transform, after the country statistics were
\* written, and wrote neither table
C10_Witness ==
    /\ pc = "failed" /\ error = "KeyError"
    /\ "results_ind" \notin columns
    /\ Written("country_statistics.csv")
    /\ ~Written("cleaned_ictrp.csv") /\ ~Written("published_trials.csv")

\* the positions of the run in the order of the statements of CleanData.py
StepOrder ==
    <<"start", "load", "dates", "year", "html", "sample", "age", "drop", "fill", "impute",
      "sponsor", "income", "summary", "country_stats", "industry_stats", "results_posted",
      "published_stats", "report", "write_cleaned", "write_published", "time_range", "done">>

StepRank(p) == CHOOSE k \in 1..Len(StepOrder) : StepOrder[k] = p

\* every step is entered only from the one before it, or the run fails
StepsInOrder ==
    pc' # pc => (pc # "failed" /\ (pc' = "failed" \/ StepRank(pc') = StepRank(pc) + 1))

\* what a step leaves in the table is seen only once the earlier steps have left theirs
EffectsInOrder ==
    /\ columns # {} => out_dir
    /\ "Year" \in columns =>
          \A i \in 1..Len(df) : \A c \in Elems(date_fields) \cap columns :
              isna(df[i][c]) \/ strftime(to_datetime(df[i][c])) = df[i][c]
    /\ "sponsor_category" \in columns =>
          /\ "Year" \in columns
          /\ columns \cap Elems(sensitive_fields) = {}
          /\ \A i \in 1..Len(df) :
                /\ \A c \in Elems(html_fields) \cap columns : clean_html_tags(df[i][c]) = df[i][c]
                /\ \A c \in (Elems(fill_fields) \cup {"results_ind"}) \cap columns : ~isna(df[i][c])
                /\ "target_sample_size" \in columns =>
                      /\ InSampleRange(df[i]["target_sample_size"])
                      /\ df[i]["target_sample_size"] = NaN =>
                            \A j \in 1..Len(df) : df[j]["target_sample_size"] = NaN
                /\ ("inclusion_age_min" \in columns /\ "inclusion_age_max" \in columns) =>
                      validate_age(df[i]["inclusion_age_min"]) /\ validate_age(df[i]["inclusion_age_max"])
    /\ "income_level" \in columns => "sponsor_category" \in columns
    /\ "results_posted" \in columns => "income_level" \in columns
    /\ Written("cleaned_ictrp.csv") => "results_posted" \in columns
    /\ Written("published_trials.csv") => Written("cleaned_ictrp.csv")

\* a change of the table belongs to the step whose turn it is
EffectAtItsStep ==
    /\ ("Year" \notin columns /\ "Year" \in columns') => pc = "year"
    /\ Len(df') < Len(df) => pc \in {"sample", "age"}
    /\ (columns \ columns') # {} => (pc = "drop" \/ (pc = "age" /\ Len(df') = 0))
    /\ ("sponsor_category" \notin columns /\ "sponsor_category" \in columns') => pc = "sponsor"
    /\ ("income_level" \notin columns /\ "income_level" \in columns') => pc = "income"
    /\ ("results_posted" \notin columns /\ "results_posted" \in columns') => pc = "results_posted"
    /\ (~Written("cleaned_ictrp.csv") /\ Written("cleaned_ictrp.csv")') => pc = "write_cleaned"
    /\ (~Written("published_trials.csv") /\ Written("published_trials.csv")') => pc = "write_published"

\* once the cleaned output is written neither the table nor the output changes
FrozenAfterWrite ==
    Written("cleaned_ictrp.csv") =>
        /\ df' = df /\ columns' = columns /\ published_df' = published_df
        /\ files'["cleaned_ictrp.csv"] = files["cleaned_ictrp.csv"]

\* C11: the run performs its steps in the fixed order load, dates and year,
\* markup, sample-size filter, age filter, drop, fill, impute, sponsor_category,
\* income_level, results_posted and the published subset, persist: a step
\* starts only when the one before it has finished, the effect of a step is in
\* the table only together with those of the earlier steps, and no record
\* changes after the cleaned output is written.
C11_FixedStepOrder ==
    []EffectsInOrder /\ [][StepsInOrder /\ EffectAtItsStep /\ FrozenAfterWrite]_vars

\* a run went through every step: it dropped a row, derived the four columns
\* and wrote both outputs
C11_Witness ==
    /\ pc = "done"
    /\ Len(source.rows) = 2 /\ Len(df) = 1
    /\ {"Year", "sponsor_category", "income_level", "results_posted"} \subseteq columns
    /\ Written("cleaned_ictrp.csv") /\ Written("published_trials.csv")
    /\ files["cleaned_ictrp.csv"] = df

\* C12: the normalization passes applied to a table that already went through
\* them give the same table: no row is dropped, no date, free text, default,
\* imputed or derived value changes, and the published subset is the same.
C12_NormalizationIdempotent ==
    /\ pc = "published_stats" =>
          /\ Renormalized(df, columns) = df
          /\ Published(Renormalized(df, columns)) = published_df
    /\ pc = "write_published" =>
          LET cleaned == files["cleaned_ictrp.csv"]
          IN  /\ Renormalized(cleaned, columns) = cleaned
              /\ Published(Renormalized(cleaned, columns)) = published_df

\* a cleaned table of two records whose raw rows had markup, an unparseable
\* date, absent defaults and an absent sample size
C12_Witness ==
    /\ pc = "write_published" /\ Written("cleaned_ictrp.csv")
    /\ Len(df) = 2 /\ Len(source.rows) = 2
    /\ \E i \in 1..2 :
          /\ ~isna(source.rows[i]["date_registration"])
          /\ isna(df[i]["date_registration"])
    /\ \E i \in 1..2 :
          /\ ~isna(source.rows[i]["inclusion_criteria"])
          /\ source.rows[i]["inclusion_criteria"] # df[i]["inclusion_criteria"]
    /\ \E i \in 1..2 :
          /\ "primary_sponsor" \in source.columns
          /\ isna(source.rows[i]["primary_sponsor"])
          /\ "target_sample_size" \in source.columns
          /\ isna(source.rows[i]["target_sample_size"])
          /\ df[i]["target_sample_size"] # NaN

\* the raw date_registration of some loaded row is a text that is no YYYY-MM-DD date
HasUnparseableDate ==
    /\ source.ok /\ "date_registration" \in source.columns
    /\ \E i \in 1..Len(source.rows) :
          /\ ~isna(source.rows[i]["date_registration"])
          /\ to_datetime(source.rows[i]["date_registration"]) = <<>>

\* C13: an unparseable date never makes the run fail: once the dates are
\* normalized every date_registration and date_enrollment is absent or a
\* YYYY-MM-DD date, the Year of a record without a date_registration is
\* absent, and a run whose input has unparseable dates does not end in the
\* exception of the time-range report.
C13_UnparseableDateNoFailure ==
    /\ "Year" \in columns =>
          \A i \in 1..Len(df) :
              /\ \A c \in Elems(date_fields) \cap columns :
                    isna(df[i][c]) \/ to_datetime(df[i][c]) # <<>>
              /\ isna(df[i]["date_registration"]) => df[i]["Year"] = NaN
    /\ HasUnparseableDate => ~(pc = "failed" /\ error = "ValueError")

\* the k-th smallest of a non-empty sequence of integers
KthSmallest(xs, k) ==
    CHOOSE v \in Elems(xs) :
        /\ Cardinality({i \in 1..Len(xs) : xs[i] < v}) < k
        /\ k <= Cardinality({i \in 1..Len(xs) : xs[i] <= v})

\* twice the median of a non-empty sequence of integers
TwiceMedian(xs) ==
    KthSmallest(xs, (Len(xs) + 1) \div 2) + KthSmallest(xs, Len(xs) \div 2 + 1)

\* twice the number a numeric cell holds
Twice(cell) == IF Len(cell) = 2 THEN cell[1] ELSE 2 * cell[1]

PresentSizes(rows) ==
    LET cells == SelectSeq([i \in 1..Len(rows) |-> rows[i]["target_sample_size"]],
                           LAMBDA v : v # NaN)
    IN  [i \in 1..Len(cells) |-> cells[i][1]]

\* the step fills every absent target_sample_size with the one median of the
\* values present before it, a value in (0, 1,000,000], and changes nothing else
FillsWithMedian ==
    /\ PresentSizes(df) # <<>>
    /\ Len(df') = Len(df)
    /\ \A i \in 1..Len(df) :
          /\ \A c \in columns \ {"target_sample_size"} : df'[i][c] = df[i][c]
          /\ df[i]["target_sample_size"] # NaN =>
                df'[i]["target_sample_size"] = df[i]["target_sample_size"]
          /\ df[i]["target_sample_size"] = NaN =>
                /\ df'[i]["target_sample_size"] # NaN
                /\ Twice(df'[i]["target_sample_size"]) = TwiceMedian(PresentSizes(df))
                /\ Twice(df'[i]["target_sample_size"]) > 0
                /\ Twice(df'[i]["target_sample_size"]) <= 2 * MAX_SAMPLE_SIZE

SomeSizeAbsent == \E i \in 1..Len(df) : df[i]["target_sample_size"] = NaN

\* C14 as stated: the imputation replaces every absent target_sample_size of
\* a surviving row by the median of the values present among the surviving
\* rows, leaves present values unchanged, and the imputed value lies in
\* (0, 1,000,000].
C14_MedianImputation ==
    [][(pc = "impute" /\ "target_sample_size" \in columns /\ SomeSizeAbsent) => FillsWithMedian]_vars

\* C14, amended: when at least one surviving row has a target_sample_size,
\* every absent one is replaced by the median of the present ones, a value in
\* (0, 1,000,000], and present values are unchanged; when no surviving row has
\* one, the step leaves the table as it is and the absent values stay absent.
C14_MedianImputationWhenPresent ==
    [][(pc = "impute" /\ "target_sample_size" \in columns /\ SomeSizeAbsent) =>
          IF PresentSizes(df) # <<>> THEN FillsWithMedian ELSE df' = df]_vars

\* the absent sample size of one of three surviving records was replaced by
\* the median of the two different sizes present
C14_Witness ==
    /\ pc = "sponsor" /\ "target_sample_size" \in columns
    /\ Len(source.rows) = 3 /\ Len(df) = 3
    /\ \E i, j, k \in 1..3 :
          /\ isna(source.rows[i]["target_sample_size"])
          /\ ~isna(source.rows[j]["target_sample_size"])
          /\ ~isna(source.rows[k]["target_sample_size"])
          /\ Twice(df[j]["target_sample_size"]) < Twice(df[k]["target_sample_size"])
          /\ Twice(df[i]["target_sample_size"]) =
                df[j]["target_sample_size"][1] + df[k]["target_sample_size"][1]

\* position k of s lies in a tag: a '<' at or before it whose next '>' comes
\* after at least one other character and not before k
InTag(s, k) ==
    \E i \in 1..k :
        /\ s[i] = "<"
        /\ \E j \in (i + 2)..Len(s) :
              /\ s[j] = ">" /\ j >= k
              /\ \A m \in (i + 1)..(j - 1) : s[m] # ">"

OutsideTags(s) ==
    LET kept == SelectSeq([k \in 1..Len(s) |-> k], LAMBDA k : ~InTag(s, k))
    IN  [n \in 1..Len(kept) |-> s[kept[n]]]

\* position k of s lies in a literal backslash-n, the one of a backslash-r
\* backslash-n included, the backslash-r before it too
InEscape(s, k) ==
    LET newline(i) == i >= 1 /\ i + 1 <= Len(s) /\ s[i] = "\\" /\ s[i + 1] = "n"
        ret_at(i) == i >= 1 /\ i + 1 <= Len(s) /\ s[i] = "\\" /\ s[i + 1] = "r" /\ newline(i + 2)
    IN  newline(k) \/ newline(k - 1) \/ ret_at(k) \/ ret_at(k - 1)

\* an escape position reads as a space
EscapesAsSpaces(s) == [k \in 1..Len(s) |-> IF InEscape(s, k) THEN " " ELSE s[k]]

RECURSIVE Squeezed(_, _, _)
\* the words of s, one space between two of them
Squeezed(s, begun, pending) ==
    IF s = <<>> THEN <<>>
    ELSE IF IsSpace(Head(s)) THEN Squeezed(Tail(s), begun, begun)
    ELSE (IF pending THEN <<" ">> ELSE <<>>) \o <<Head(s)>> \o Squeezed(Tail(s), TRUE, FALSE)

HasTag(s) == \E k \in 1..Len(s) : InTag(s, k)

\* C15: clean_html_tags maps absent to absent; otherwise it removes every
\* tag '<...>', reads each literal backslash-r backslash-n and backslash-n as
\* a space, collapses every whitespace run to one space and trims.  Its
\* result is never the empty text, has no leading, trailing or doubled
\* whitespace and no tag, and is absent when nothing but whitespace is left.
C15_CleanHtmlTags ==
    Returned("clean_html_tags") =>
        LET out == ret[1]
            words == Squeezed(EscapesAsSpaces(OutsideTags(arg)), FALSE, FALSE)
        IN  /\ isna(arg) => isna(out)
            /\ out # <<>>
            /\ ~isna(arg) =>
                  /\ out = IF words = <<>> THEN NA ELSE words
                  /\ (\A k \in 1..Len(EscapesAsSpaces(OutsideTags(arg))) :
                          IsSpace(EscapesAsSpaces(OutsideTags(arg))[k])) <=> isna(out)
            /\ ~isna(out) =>
                  /\ ~IsSpace(out[1]) /\ ~IsSpace(out[Len(out)])
                  /\ \A k \in 1..(Len(out) - 1) : ~(IsSpace(out[k]) /\ IsSpace(out[k + 1]))
                  /\ \A k \in 1..Len(out) : IsSpace(out[k]) => out[k] = " "
                  /\ ~HasTag(out)
                  /\ \A k \in 1..Len(out) : ~InEscape(out, k)

\* a text with a tag and a literal newline escape came back as its two words
C15_Witness ==
    /\ Returned("clean_html_tags")
    /\ arg = <<"<","b",">","A","g","e">> \o <<"\\","n">> \o <<"1","8">>
    /\ ret[1] = <<"A","g","e"," ","1","8">>

\* the table has the given schema, and none of the sensitive fields is in it
SchemaWithoutSensitive(rows, cols) ==
    /\ cols \cap Elems(sensitive_fields) = {}
    /\ \A i \in 1..Len(rows) : DOMAIN rows[i] = cols

\* C16: the schema of the cleaned and of the published output holds none of
\* contact_affiliation, secondary_sponsor, web_address and results_url_link,
\* whichever of them the input had; removing a field the schema does not have
\* changes nothing, and removing the fields twice gives what removing them
\* once gives.
C16_SensitiveFieldsRemoved ==
    /\ Written("cleaned_ictrp.csv") => SchemaWithoutSensitive(files["cleaned_ictrp.csv"], columns)
    /\ Written("published_trials.csv") => SchemaWithoutSensitive(files["published_trials.csv"], columns)
    /\ pc = "fill" => SchemaWithoutSensitive(df, columns)
    /\ pc = "drop" =>
          LET once == DropEach(columns, sensitive_fields)
          IN  /\ once = columns \ Elems(sensitive_fields)
              /\ DropEach(once, sensitive_fields) = once
              /\ \A f \in Elems(sensitive_fields) \ columns : DropEach(columns, <<f>>) = columns
              /\ \A f \in Elems(sensitive_fields) \cap columns : f \notin DropEach(columns, <<f>>)

\* both outputs are written from an input that had three of the four fields
\* and lacked secondary_sponsor; a record is published
C16_Witness ==
    /\ Written("cleaned_ictrp.csv") /\ Written("published_trials.csv")
    /\ Elems(sensitive_fields) \cap source.columns =
          {"contact_affiliation", "web_address", "results_url_link"}
    /\ Len(files["published_trials.csv"]) >= 1
    /\ "results_url_link" \notin DOMAIN files["published_trials.csv"][1]
    /\ "contact_affiliation" \notin DOMAIN files["cleaned_ictrp.csv"][1]

FilledColumns == (Elems(fill_fields) \cup {"results_ind"}) \cap columns

\* the fill step gives an absent categorical field "Unknown" and an absent
\* results_ind "No", and changes no other cell
FillsOnlyAbsent ==
    /\ Len(df') = Len(df)
    /\ \A i \in 1..Len(df) :
          /\ DOMAIN df'[i] = DOMAIN df[i]
          /\ \A c \in columns \ FilledColumns : df'[i][c] = df[i][c]
          /\ \A c \in FilledColumns :
                /\ ~isna(df'[i][c])
                /\ ~isna(df[i][c]) => df'[i][c] = df[i][c]
                /\ isna(df[i][c]) => df'[i][c] = IF c = "results_ind" THEN <<"N","o">> ELSE <<"U","n","k","n","o","w","n">>

\* C17: after the fill step no surviving record has an absent
\* standardised_condition, countries, primary_sponsor, phase, study_type or
\* results_ind: an absent one reads "Unknown", for results_ind "No", and a
\* value that was present is unchanged.
C17_DefaultsFilled ==
    /\ []((pc # "failed" /\ StepRank(pc) > StepRank("fill")) =>
              \A i \in 1..Len(df) : \A c \in FilledColumns : ~isna(df[i][c]))
    /\ [][pc = "fill" => FillsOnlyAbsent]_vars

\* after the fill a record whose phase and results_ind were absent reads
\* "Unknown" and "No", and its standardised_condition is the one of the input
C17_Witness ==
    /\ pc = "impute"
    /\ Len(df) = 1 /\ Len(source.rows) = 1
    /\ {"phase", "results_ind", "standardised_condition"} \subseteq columns
    /\ isna(source.rows[1]["phase"]) /\ df[1]["phase"] = <<"U","n","k","n","o","w","n">>
    /\ isna(source.rows[1]["results_ind"]) /\ df[1]["results_ind"] = <<"N","o">>
    /\ ~isna(source.rows[1]["standardised_condition"])
    /\ df[1]["standardised_condition"] = source.rows[1]["standardised_condition"]

\* the columns of the input that no step of the run writes
UntouchedColumns ==
    source.columns \ (Elems(date_fields) \cup Elems(html_fields) \cup Elems(fill_fields)
                      \cup Elems(sensitive_fields) \cup {"target_sample_size", "results_ind"})

\* the cleaned record r is the raw row s: the untouched cells are equal, a
\* date is the raw date or absent, a filled cell is the raw cell or its
\* default, and the sample size is the raw number unless the raw cell had none
CleanedFrom(r, s) ==
    /\ \A c \in UntouchedColumns : r[c] = s[c]
    /\ \A c \in Elems(date_fields) \cap source.columns : r[c] = s[c] \/ isna(r[c])
    /\ \A c \in Elems(fill_fields) \cap source.columns :
          r[c] = s[c] \/ (isna(s[c]) /\ r[c] = <<"U","n","k","n","o","w","n">>)
    /\ "results_ind" \in source.columns =>
          r["results_ind"] = s["results_ind"] \/ (isna(s["results_ind"]) /\ r["results_ind"] = <<"N","o">>)
    /\ "target_sample_size" \in source.columns =>
          \/ to_numeric(s["target_sample_size"]) = NaN
          \/ r["target_sample_size"] = to_numeric(s["target_sample_size"])

RECURSIVE RowsAmong(_, _)
\* the records are, in their order, rows of raw, each raw row taken at most once
RowsAmong(rows, raw) ==
    IF rows = <<>> THEN TRUE
    ELSE IF raw = <<>> THEN FALSE
    ELSE IF CleanedFrom(Head(rows), Head(raw)) THEN RowsAmong(Tail(rows), Tail(raw))
    ELSE RowsAmong(rows, Tail(raw))

\* C18: at every step the table has at most as many rows as the loaded input,
\* no step after the load adds a row, and every record of the cleaned output
\* is a row of the input, no row taken twice.
C18_RowsOnlyRemoved ==
    /\ [](/\ Len(df) <= Len(source.rows)
          /\ Written("cleaned_ictrp.csv") => RowsAmong(files["cleaned_ictrp.csv"], source.rows))
    /\ [][pc # "load" => Len(df') <= Len(df)]_vars

\* of three loaded rows the sample-size filter removed the first and the age
\* filter the third; the cleaned output holds the second
C18_Witness ==
    /\ Written("cleaned_ictrp.csv")
    /\ Len(source.rows) = 3
    /\ Len(files["cleaned_ictrp.csv"]) = 1
    /\ "target_sample_size" \in source.columns /\ AgeFilterApplies
    /\ ~InSampleRange(to_numeric(source.rows[1]["target_sample_size"]))
    /\ InSampleRange(to_numeric(source.rows[3]["target_sample_size"]))
    /\ ~validate_age(source.rows[3]["inclusion_age_max"])
    /\ CleanedFrom(files["cleaned_ictrp.csv"][1], source.rows[2])
    /\ outliers_removed = 2

\* the index of a script in SCRIPTS
ScriptPosition(script) == CHOOSE k \in 1..Len(SCRIPTS) : SCRIPTS[k] = script

\* the scripts were started in the order of the list, none twice
StartedInListOrder ==
    \A a, b \in 1..Len(started) :
        a < b => ScriptPosition(started[a]) < ScriptPosition(started[b])

\* C19: main runs the scripts one at a time in the order of SCRIPTS and stops
\* at the first failure: once run_script has reported a failure no script is
\* started any more; failed is 0 or 1 and success + failed is at most the
\* number of scripts.
C19_StopsAtFirstFailure ==
    /\ [](/\ failed \in {0, 1}
          /\ success + failed <= Len(SCRIPTS)
          /\ StartedInListOrder
          /\ Len(started) = success + failed + (IF main_pc = "running" THEN 1 ELSE 0))
    /\ [][/\ failed = 1 => started' = started
          /\ started' # started =>
                main_pc = "loop" /\ started' = Append(started, SCRIPTS[script_index])]_vars

\* main has ended after two scripts ran through and the third failed, the
\* three scripts after it present and never started
C19_Witness ==
    /\ main_pc = "done"
    /\ success = 2 /\ failed = 1
    /\ started = <<"CleanData.py", "DataFit.py", "ExtractDrug.py">>
    /\ {"Network.py", "visualization.py", "pregnant.py"} \subseteq exists

\* the scripts of this run that ran through
Succeeded == Elems(SubSeq(started, 1, success))

\* C20: a script is started only when every script listed before it in
\* SCRIPTS has run through in this run; no later stage is started unless
\* CleanData.py ran and succeeded.
C20_StartedAfterPredecessors ==
    \A k \in 1..Len(started) :
        \A p \in 1..(ScriptPosition(started[k]) - 1) : SCRIPTS[p] \in Succeeded

\* the input was read and has every column the script names
CompleteInput == source.ok /\ ExpectedColumns \subseteq source.columns

\* C21: for an input that loads and has all expected columns the run does
\* not fail, and when it has ended both the cleaned and the published table
\* are written, with zero records when no row is left and when no record has
\* results posted.
C21_CompleteInputTerminates ==
    CompleteInput =>
        /\ pc # "failed"
        /\ pc = "done" =>
              /\ Written("cleaned_ictrp.csv") /\ files["cleaned_ictrp.csv"] = df
              /\ Written("published_trials.csv") /\ files["published_trials.csv"] = published_df

\* the code lists of two different levels share no code, and every code of
\* COUNTRY_CODE is in the list of exactly one level
TablesConsistent ==
    /\ \A a, b \in Elems(INCOME_LEVELS) :
          a # b => Elems(INCOME_MAP(a)) \cap Elems(INCOME_MAP(b)) = {}
    /\ \A i \in 1..Len(COUNTRY_CODE) :
          Cardinality({lvl \in Elems(INCOME_LEVELS) : InList(COUNTRY_CODE[i][1], INCOME_MAP(lvl))}) = 1

\* the orders in which the four levels can be examined
LevelOrders ==
    {order \in [1..Len(INCOME_LEVELS) -> Elems(INCOME_LEVELS)] :
        \A i, j \in 1..Len(INCOME_LEVELS) : i # j => order[i] # order[j]}

\* the first level, in the given order, whose list holds the code
IncomeInOrder(code, order) ==
    LET hits == {i \in 1..Len(order) : InList(code, INCOME_MAP(order[i]))}
    IN  IF hits = {} THEN "Unknown" ELSE order[SetMin(hits)]

\* C22: the lists of INCOME_MAP are pairwise disjoint and every code of
\* COUNTRY_CODE is in exactly one of them; the result of map_income is the
\* same in whichever order the levels are examined, and it is not "Unknown"
\* for a value whose first token is a code of COUNTRY_CODE.
C22_ReferenceTablesConsistent ==
    /\ TablesConsistent
    /\ (Returned("map_income") /\ ~isna(arg)) =>
          LET code == TokenBeforeSeparator(Upper(Strip(arg)))
          IN  /\ \A order \in LevelOrders : ret[1] = IncomeInOrder(code, order)
              /\ IsCountryCode(code) => ret[1] # "Unknown"

\* "ken,XYZ" was mapped to the level of KEN
C22_Witness ==
    /\ Returned("map_income")
    /\ arg = <<"k","e","n",",","X","Y","Z">>
    /\ IsCountryCode(TokenBeforeSeparator(Upper(Strip(arg))))
    /\ ret[1] = "Low"

====
